---------------------------- MODULE Spec2Model ----------------------------
(***************************************************************************)
(* Model of gum/backend-elf/gumelfmodule.c: construction of a GumElfModule *)
(* from an ELF image, address translation, and the callback-driven         *)
(* enumerations (dynamic entries, dynamic symbols, section symbols,        *)
(* dependencies, imports, exports).                                        *)
(*                                                                         *)
(* GumAddress is a 64-bit unsigned integer.  It is represented as four     *)
(* 16-bit limbs, least significant first, and all address arithmetic is    *)
(* carried out modulo 2^64 on the limbs.                                   *)
(***************************************************************************)
EXTENDS Integers, Sequences, FiniteSets, TLC

VARIABLES
  sizeof_gpointer,  \* sizeof (gpointer) of the build: 4 or 8
  file,             \* the ELF image found at `path`
  module,           \* the GumElfModule instance
  result,           \* what gum_elf_module_new_from_memory returned
  call,             \* the enumeration entry point last called
  log,              \* the caller's callback invocations during that call
  outcome           \* how that call ended

vars == <<sizeof_gpointer, file, module, result, call, log, outcome>>

(***************************************************************************)
(* Bounds of the explored input space.                                     *)
(***************************************************************************)
MaxPhdrs == 3
MaxDyn == 4
MaxSymtabDyn == 5
MaxSyms == 2
MaxStop == 2

(***************************************************************************)
(* ELF ABI constants (<gelf.h>), with the values the build sees.           *)
(***************************************************************************)
ET_REL == 1
ET_EXEC == 2
ET_DYN == 3
ET_CORE == 4

PT_LOAD == 1
PT_DYNAMIC == 2
PT_GNU_STACK == 1685382481

DT_NULL == 0
DT_NEEDED == 1
DT_HASH == 4
DT_STRTAB == 5
DT_SYMTAB == 6
DT_SYMENT == 11
DT_DEBUG == 21

SHN_UNDEF == 0
STT_NOTYPE == 0
STT_OBJECT == 1
STT_FUNC == 2
STB_LOCAL == 0
STB_GLOBAL == 1
STB_WEAK == 2

SHT_SYMTAB == 2
SHT_STRTAB == 3

(***************************************************************************)
(* 64-bit unsigned arithmetic on limbs.                                    *)
(***************************************************************************)
LimbBase == 2 ^ 16

\* The 64-bit value l4:l3:l2:l1 (l1 least significant).
Mk64(l4, l3, l2, l1) == <<l1, l2, l3, l4>>

\* The 64-bit value of a natural number below 2^31.
ToU64(n) == <<n % LimbBase, n \div LimbBase, 0, 0>>

Zero64 == <<0, 0, 0, 0>>

\* a + b modulo 2^64
Add64(a, b) ==
  LET s1 == a[1] + b[1]
      s2 == a[2] + b[2] + (s1 \div LimbBase)
      s3 == a[3] + b[3] + (s2 \div LimbBase)
      s4 == a[4] + b[4] + (s3 \div LimbBase)
  IN  <<s1 % LimbBase, s2 % LimbBase, s3 % LimbBase, s4 % LimbBase>>

\* -a modulo 2^64 (two's complement)
Neg64(a) ==
  Add64(<<LimbBase - 1 - a[1], LimbBase - 1 - a[2],
          LimbBase - 1 - a[3], LimbBase - 1 - a[4]>>, <<1, 0, 0, 0>>)

\* a - b modulo 2^64
Sub64(a, b) == Add64(a, Neg64(b))

\* a * n modulo 2^64, for a natural number n below 2^15
Mul64(a, n) ==
  LET p1 == a[1] * n
      p2 == a[2] * n + (p1 \div LimbBase)
      p3 == a[3] * n + (p2 \div LimbBase)
      p4 == a[4] * n + (p3 \div LimbBase)
  IN  <<p1 % LimbBase, p2 % LimbBase, p3 % LimbBase, p4 % LimbBase>>

(***************************************************************************)
(* The one element of a singleton set.  {e(x) : x \in {v}} computes v once *)
(* and names it x in e, where a LET definition would compute it anew at    *)
(* each use.                                                               *)
(***************************************************************************)
Value(singleton) == CHOOSE v \in singleton : TRUE

(***************************************************************************)
(* Pointers.  sizeof (gpointer) is 4 or 8 depending on the build; a        *)
(* pointer is kept as a 64-bit value whose upper limbs are zero on a       *)
(* 32-bit build.  NULL is the zero pointer.                                *)
(***************************************************************************)
PointerSizes == {4, 8}

NULL == Zero64

\* GSIZE_TO_POINTER ((gsize) a): the address cut to the pointer width.
GSIZE_TO_POINTER(a) ==
  IF sizeof_gpointer = 4 THEN <<a[1], a[2], 0, 0>> ELSE a

\* p + n on a char pointer, n a 64-bit offset.
PointerAdd(p, n) == GSIZE_TO_POINTER(Add64(p, n))

\* sizeof (Elf32_Dyn) / sizeof (Elf64_Dyn)
SizeofDyn == IF sizeof_gpointer = 4 THEN 8 ELSE 16

\* sizeof (Elf32_Sym) / sizeof (Elf64_Sym)
SizeofSym == IF sizeof_gpointer = 4 THEN 16 ELSE 24

\* GELF_ST_TYPE / GELF_ST_BIND / GELF_ST_INFO on the st_info byte.
GELF_ST_TYPE(info) == info % 16
GELF_ST_BIND(info) == info \div 16
GELF_ST_INFO(bind, type) == bind * 16 + (type % 16)


(***************************************************************************)
(* The ELF image behind `path`: what open/mmap/elf_memory report for it,   *)
(* its ELF header and program headers, and the tables the enumerators read *)
(* through resolved pointers:                                              *)
(*   dynamic  the Elf_Dyn array of the dynamic segment,                    *)
(*   dynsym   the Elf_Sym array DT_SYMTAB points to,                       *)
(*   nchain   the second word of the table DT_HASH points to,              *)
(*   shdrs    the section headers, symtab the entries of the section of    *)
(*            type SHT_SYMTAB.                                             *)
(***************************************************************************)
Phdr(type, offset, vaddr, memsz) ==
  [p_type |-> type, p_offset |-> offset, p_vaddr |-> vaddr, p_memsz |-> memsz]

Dyn(tag, val) == [d_tag |-> tag, d_val |-> val]

Sym(name, value, info, shndx) ==
  [st_name |-> name, st_value |-> value, st_info |-> info, st_shndx |-> shndx]

Shdr(type, size, entsize, link) ==
  [sh_type |-> type, sh_size |-> size, sh_entsize |-> entsize, sh_link |-> link]

\* The all-zero symbol at index 0 of every ELF symbol table (STN_UNDEF).
NullSym == Sym(0, Zero64, 0, SHN_UNDEF)

(***************************************************************************)
(* GumElfModule (gumelfmodule.h).  g_object_new zero-fills the instance    *)
(* and applies the "base-address" property before constructed runs.        *)
(***************************************************************************)
NoFile == [can_open |-> FALSE]

GumElfModuleInstance(base_address) ==
  [valid |-> FALSE, file_data |-> "NULL", elf |-> "NULL", e_type |-> 0,
   image |-> NoFile,
   base_address |-> base_address, preferred_address |-> Zero64]

\* gelf_getphdr (self->elf, header_index, &phdr), header_index from 0
gelf_getphdr(self, header_index) == self.image.phdrs[header_index + 1]

\* self->ehdr->e_phnum
e_phnum(self) == Len(self.image.phdrs)

RECURSIVE compute_preferred_address_loop(_, _)
compute_preferred_address_loop(self, header_index) ==
  IF header_index = e_phnum(self) THEN Zero64
  ELSE LET phdr == gelf_getphdr(self, header_index)
       IN  IF phdr.p_offset = 0 THEN phdr.p_vaddr
           ELSE compute_preferred_address_loop(self, header_index + 1)

gum_elf_module_compute_preferred_address(self) ==
  compute_preferred_address_loop(self, 0)

\* Mutant: the difference taken the wrong way round.
gum_elf_module_resolve_virtual_address_swapped(self, address) ==
  Add64(self.base_address, Sub64(self.preferred_address, address))

gum_elf_module_resolve_virtual_address(self, address) ==
  Add64(self.base_address, Sub64(address, self.preferred_address))

\* Mutant: the object type is not checked.
gum_elf_module_constructed_any_type(self, f) ==
  IF ~f.can_open THEN [self EXCEPT !.valid = FALSE]
  ELSE IF ~f.can_mmap THEN [self EXCEPT !.file_data = "NULL", !.valid = FALSE]
  ELSE IF ~f.is_elf
    THEN [self EXCEPT !.file_data = "mapped", !.valid = FALSE]
  ELSE LET parsed == [self EXCEPT !.file_data = "mapped", !.elf = "elf",
                                  !.image = f, !.e_type = f.e_type]
       IN [parsed EXCEPT
             !.preferred_address =
                gum_elf_module_compute_preferred_address(parsed),
             !.valid = TRUE]

gum_elf_module_constructed(self, f) ==
  IF ~f.can_open                                   \* fd == -1: goto error
    THEN [self EXCEPT !.valid = FALSE]
  ELSE IF ~f.can_mmap                              \* MAP_FAILED: mmap_failed
    THEN [self EXCEPT !.file_data = "NULL", !.valid = FALSE]
  ELSE IF ~f.is_elf                                \* elf == NULL: goto error
    THEN [self EXCEPT !.file_data = "mapped", !.valid = FALSE]
  ELSE LET parsed == [self EXCEPT !.file_data = "mapped", !.elf = "elf",
                                  !.image = f, !.e_type = f.e_type]
       IN IF parsed.e_type # ET_EXEC /\ parsed.e_type # ET_DYN
            THEN [parsed EXCEPT !.valid = FALSE]
          ELSE [parsed EXCEPT
                  !.preferred_address =
                     gum_elf_module_compute_preferred_address(parsed),
                  !.valid = TRUE]

(***************************************************************************)
(* Callbacks.  A callback is called with the record and its user_data and  *)
(* answers [ret, user_data]: the gboolean it returns (TRUE to carry on)    *)
(* and the user_data as it left it.                                        *)
(*                                                                         *)
(* The caller's own callback keeps, in its user_data, the records it was   *)
(* given with the answer it gave to each; it answers FALSE on invocation   *)
(* number stop_at (never, when stop_at = 0).                               *)
(***************************************************************************)
UserData(stop_at) == [stop_at |-> stop_at, log |-> <<>>]

UserCallback(details, user_data) ==
  LET ret == (Len(user_data.log) + 1 # user_data.stop_at)
  IN  [ret |-> ret,
       user_data |-> [user_data EXCEPT
                        !.log = Append(@, [details |-> details, ret |-> ret])]]

\* Mutant: the string table pointer is stored but the scan carries on, so
\* the last DT_STRTAB entry wins.
gum_store_strtab_last(details, ctx) ==
  IF details.type # DT_STRTAB THEN [ret |-> TRUE, user_data |-> ctx]
  ELSE [ret |-> TRUE,
        user_data |-> [ctx EXCEPT !.strtab = GSIZE_TO_POINTER(
           gum_elf_module_resolve_virtual_address(ctx.module, details.value))]]

gum_store_strtab(details, ctx) ==
  IF details.type # DT_STRTAB THEN [ret |-> TRUE, user_data |-> ctx]
  ELSE [ret |-> FALSE,
        user_data |-> [ctx EXCEPT !.strtab = GSIZE_TO_POINTER(
           gum_elf_module_resolve_virtual_address(ctx.module, details.value))]]

gum_emit_each_needed(details, ctx) ==
  IF details.type # DT_NEEDED THEN [ret |-> TRUE, user_data |-> ctx]
  ELSE LET d == [name |-> PointerAdd(ctx.strtab, details.value)]
       IN  Value({[ret |-> r.ret,
                   user_data |-> [ctx EXCEPT !.user_data = r.user_data]] :
                  r \in {UserCallback(d, ctx.user_data)}})     \* ctx->func

\* Mutant: every undefined symbol is taken for an import, whatever its type.
gum_emit_elf_import_any_type(details, ctx) ==
  IF details.section_header_index = SHN_UNDEF
    THEN LET d == [type |-> IF details.type = STT_FUNC
                              THEN "GUM_EXPORT_FUNCTION"
                              ELSE "GUM_EXPORT_VARIABLE",
                   name |-> details.name,
                   module |-> "NULL",
                   address |-> Zero64]
         IN  Value({[ret |-> r.ret,
                     user_data |-> [ctx EXCEPT !.user_data = r.user_data]] :
                    r \in {UserCallback(d, ctx.user_data)}})
  ELSE [ret |-> TRUE, user_data |-> ctx]

gum_emit_elf_import(details, ctx) ==
  IF /\ details.section_header_index = SHN_UNDEF
     /\ (details.type = STT_FUNC \/ details.type = STT_OBJECT)
    THEN LET d == [type |-> IF details.type = STT_FUNC
                              THEN "GUM_EXPORT_FUNCTION"
                              ELSE "GUM_EXPORT_VARIABLE",
                   name |-> details.name,
                   module |-> "NULL",
                   address |-> Zero64]
         IN  Value({[ret |-> r.ret,
                     user_data |-> [ctx EXCEPT !.user_data = r.user_data]] :
                    r \in {UserCallback(d, ctx.user_data)}})   \* ctx->func
  ELSE [ret |-> TRUE, user_data |-> ctx]

\* Mutant: the binding is not consulted, so local symbols are exported.
gum_emit_elf_export_any_bind(details, ctx) ==
  IF /\ details.section_header_index # SHN_UNDEF
     /\ (details.type = STT_FUNC \/ details.type = STT_OBJECT)
    THEN LET d == [type |-> IF details.type = STT_FUNC
                              THEN "GUM_EXPORT_FUNCTION"
                              ELSE "GUM_EXPORT_VARIABLE",
                   name |-> details.name,
                   address |-> details.address]
         IN  Value({[ret |-> r.ret,
                     user_data |-> [ctx EXCEPT !.user_data = r.user_data]] :
                    r \in {UserCallback(d, ctx.user_data)}})
  ELSE [ret |-> TRUE, user_data |-> ctx]

\* Mutant: the section index is not consulted, so undefined symbols are
\* exported as well.
gum_emit_elf_export_any_section(details, ctx) ==
  IF /\ (details.type = STT_FUNC \/ details.type = STT_OBJECT)
     /\ (details.bind = STB_GLOBAL \/ details.bind = STB_WEAK)
    THEN LET d == [type |-> IF details.type = STT_FUNC
                              THEN "GUM_EXPORT_FUNCTION"
                              ELSE "GUM_EXPORT_VARIABLE",
                   name |-> details.name,
                   address |-> details.address]
         IN  Value({[ret |-> r.ret,
                     user_data |-> [ctx EXCEPT !.user_data = r.user_data]] :
                    r \in {UserCallback(d, ctx.user_data)}})
  ELSE [ret |-> TRUE, user_data |-> ctx]

gum_emit_elf_export(details, ctx) ==
  IF /\ details.section_header_index # SHN_UNDEF
     /\ (details.type = STT_FUNC \/ details.type = STT_OBJECT)
     /\ (details.bind = STB_GLOBAL \/ details.bind = STB_WEAK)
    THEN LET d == [type |-> IF details.type = STT_FUNC
                              THEN "GUM_EXPORT_FUNCTION"
                              ELSE "GUM_EXPORT_VARIABLE",
                   name |-> details.name,
                   address |-> details.address]
         IN  Value({[ret |-> r.ret,
                     user_data |-> [ctx EXCEPT !.user_data = r.user_data]] :
                    r \in {UserCallback(d, ctx.user_data)}})   \* ctx->func
  ELSE [ret |-> TRUE, user_data |-> ctx]

\* hash_params[1], read through the resolved DT_HASH pointer.
ReadNchain(self, hash_params) == self.image.nchain

\* ctx->pending is a guint; it is only decremented while it is not zero,
\* because the scan stops on the entry that makes it zero.
gum_store_symtab_params(details, ctx) ==
  LET stored ==
        CASE details.type = DT_SYMTAB ->
               [ctx EXCEPT !.entries = GSIZE_TO_POINTER(
                              gum_elf_module_resolve_virtual_address(
                                ctx.module, details.value)),
                           !.pending = @ - 1]
          [] details.type = DT_SYMENT ->
               [ctx EXCEPT !.entry_size = details.value,
                           !.pending = @ - 1]
          [] details.type = DT_HASH ->
               LET hash_params == GSIZE_TO_POINTER(
                     gum_elf_module_resolve_virtual_address(
                       ctx.module, details.value))
                   nchain == ReadNchain(ctx.module, hash_params)
               IN  [ctx EXCEPT !.entry_count = nchain,
                               !.pending = @ - 1]
          [] details.type = DT_STRTAB ->
               [ctx EXCEPT !.strtab = GSIZE_TO_POINTER(
                              gum_elf_module_resolve_virtual_address(
                                ctx.module, details.value)),
                           !.pending = @ - 1]
          [] OTHER -> ctx
  IN  [ret |-> stored.pending # 0, user_data |-> stored]

\* The call through a GumElfFound...Func pointer.
Invoke(func, details, user_data) ==
  CASE func = "gum_store_strtab" -> gum_store_strtab(details, user_data)
    [] func = "gum_emit_each_needed" -> gum_emit_each_needed(details, user_data)
    [] func = "gum_emit_elf_import" -> gum_emit_elf_import(details, user_data)
    [] func = "gum_emit_elf_export" -> gum_emit_elf_export(details, user_data)
    [] func = "gum_store_symtab_params" ->
         gum_store_symtab_params(details, user_data)
    [] func = "user" -> UserCallback(details, user_data)

(***************************************************************************)
(* Structural locators.                                                    *)
(***************************************************************************)
RECURSIVE find_dynamic_range_loop(_, _)
find_dynamic_range_loop(self, header_index) ==
  IF header_index = e_phnum(self)
    THEN [found |-> FALSE, base_address |-> Zero64, size |-> 0]
  ELSE LET phdr == gelf_getphdr(self, header_index)
       IN  IF phdr.p_type = PT_DYNAMIC
             THEN [found |-> TRUE, base_address |-> phdr.p_vaddr,
                   size |-> phdr.p_memsz]
           ELSE find_dynamic_range_loop(self, header_index + 1)

\* Mutant: the first program header is taken for the dynamic segment when
\* there is no PT_DYNAMIC one.
gum_elf_module_find_dynamic_range_fallback(self) ==
  LET r == find_dynamic_range_loop(self, 0)
  IN  IF r.found \/ e_phnum(self) = 0 THEN r
      ELSE [found |-> TRUE, base_address |-> gelf_getphdr(self, 0).p_vaddr,
            size |-> gelf_getphdr(self, 0).p_memsz]

gum_elf_module_find_dynamic_range(self) == find_dynamic_range_loop(self, 0)

\* elf_nextscn walks the sections from index 1 on; shdrs[i] is section i.
RECURSIVE find_section_header_loop(_, _, _)
find_section_header_loop(self, type, cur) ==
  IF cur > Len(self.image.shdrs)
    THEN [found |-> FALSE, scn |-> 0, shdr |-> Shdr(0, 0, 0, 0)]
  ELSE IF self.image.shdrs[cur].sh_type = type
    THEN [found |-> TRUE, scn |-> cur, shdr |-> self.image.shdrs[cur]]
  ELSE find_section_header_loop(self, type, cur + 1)

gum_elf_module_find_section_header(self, type) ==
  find_section_header_loop(self, type, 1)

(***************************************************************************)
(* Reads through resolved pointers.  The image's tables lie where the      *)
(* address translator puts their link-time addresses.                      *)
(***************************************************************************)
\* entries[entry_index] of the dynamic segment; the array is followed by
\* DT_NULL entries.
ReadDyn(self, entries, entry_index) ==
  IF entry_index < Len(self.image.dynamic)
    THEN self.image.dynamic[entry_index + 1]
  ELSE Dyn(DT_NULL, Zero64)

\* Where the Elf_Sym array of the image lies in memory.
DynsymBegin(self) ==
  GSIZE_TO_POINTER(
    gum_elf_module_resolve_virtual_address(self, self.image.symtab_vaddr))

\* The indices k with entry = &dynsym[k].
DynsymIndexAt(self, entry) ==
  {k \in 0..(Len(self.image.dynsym) - 1) :
     /\ DynsymBegin(self) # NULL
     /\ entry = PointerAdd(DynsymBegin(self), ToU64(k * SizeofSym))}

\* *(Elf_Sym * ) entry.  A read outside the symbol table is undefined
\* behaviour: `wild` is what it does, a fault or some symbol.
ReadSymDefined(self, entry) == DynsymIndexAt(self, entry) # {}

ReadSym(self, entry, wild) ==
  IF ReadSymDefined(self, entry)
    THEN self.image.dynsym[(CHOOSE k \in DynsymIndexAt(self, entry) : TRUE) + 1]
  ELSE wild.sym

(***************************************************************************)
(* Entry enumerators.  Each answers the user_data as the callbacks left    *)
(* it.                                                                     *)
(***************************************************************************)
\* Mutant: the callback's answer is ignored.
RECURSIVE dynamic_entries_loop_no_stop(_, _, _, _, _, _)
dynamic_entries_loop_no_stop(self, func, user_data, entries, entry_index, entry_count) ==
  IF entry_index = entry_count THEN user_data
  ELSE LET entry == ReadDyn(self, entries, entry_index)
           d == [type |-> entry.d_tag, value |-> entry.d_val]
       IN  Value({dynamic_entries_loop_no_stop(self, func, r.user_data,
                    entries, entry_index + 1, entry_count) :
                  r \in {Invoke(func, d, user_data)}})

RECURSIVE dynamic_entries_loop(_, _, _, _, _, _)
dynamic_entries_loop(self, func, user_data, entries, entry_index, entry_count) ==
  IF entry_index = entry_count THEN user_data
  ELSE LET entry == ReadDyn(self, entries, entry_index)
           d == [type |-> entry.d_tag, value |-> entry.d_val]
       IN  Value({IF ~r.ret THEN r.user_data
                  ELSE dynamic_entries_loop(self, func, r.user_data, entries,
                                            entry_index + 1, entry_count) :
                  r \in {Invoke(func, d, user_data)}})

gum_elf_module_enumerate_dynamic_entries(self, func, user_data) ==
  LET dynamic == gum_elf_module_find_dynamic_range(self)
      dynamic_begin == GSIZE_TO_POINTER(
        gum_elf_module_resolve_virtual_address(self, dynamic.base_address))
      entry_count == dynamic.size \div SizeofDyn
  IN  IF ~dynamic.found THEN user_data
      ELSE dynamic_entries_loop(self, func, user_data, dynamic_begin, 0,
                                entry_count)

\* The loop over the symbol entries: [user_data, fault].
RECURSIVE dynamic_symbols_loop(_, _, _, _, _, _)
dynamic_symbols_loop(self, func, user_data, ctx, entry_index, wild) ==
  IF ~(entry_index < ctx.entry_count)
    THEN [user_data |-> user_data, fault |-> FALSE]
  ELSE LET entry == PointerAdd(ctx.entries, Mul64(ctx.entry_size, entry_index))
       IN  IF ~ReadSymDefined(self, entry) /\ wild.fault
             THEN [user_data |-> user_data, fault |-> TRUE]
           ELSE
             LET sym == ReadSym(self, entry, wild)
                 details ==
                   [name |-> PointerAdd(ctx.strtab, ToU64(sym.st_name)),
                    address |-> gum_elf_module_resolve_virtual_address(
                                  self, sym.st_value),
                    type |-> GELF_ST_TYPE(sym.st_info),
                    bind |-> GELF_ST_BIND(sym.st_info),
                    section_header_index |-> sym.st_shndx]
             IN  Value({IF ~r.ret
                          THEN [user_data |-> r.user_data, fault |-> FALSE]
                        ELSE dynamic_symbols_loop(self, func, r.user_data,
                                                  ctx, entry_index + 1, wild) :
                        r \in {Invoke(func, details, user_data)}})

gum_elf_module_enumerate_dynamic_symbols(self, func, user_data, wild) ==
  LET ctx0 == [pending |-> 4, entries |-> NULL, entry_size |-> Zero64,
               entry_count |-> 0, strtab |-> NULL, module |-> self]
  IN  Value({IF ctx.pending # 0
               THEN [user_data |-> user_data, fault |-> FALSE]
             ELSE dynamic_symbols_loop(self, func, user_data, ctx, 1, wild) :
             ctx \in {gum_elf_module_enumerate_dynamic_entries(
                        self, "gum_store_symtab_params", ctx0)}})

\* elf_strptr (self->elf, shdr.sh_link, sym.st_name): the string at that
\* offset of the linked string section.
elf_strptr(self, sh_link, st_name) == <<sh_link, st_name>>

RECURSIVE symbols_in_section_loop(_, _, _, _, _, _, _)
symbols_in_section_loop(self, shdr, func, user_data, symbol_index, symbol_count, carry_on) ==
  IF ~(symbol_index # symbol_count /\ carry_on) THEN user_data
  ELSE LET sym == self.image.symtab[symbol_index + 1]     \* gelf_getsym
           details ==
             [name |-> elf_strptr(self, shdr.sh_link, sym.st_name),
              address |-> gum_elf_module_resolve_virtual_address(
                            self, sym.st_value),
              type |-> GELF_ST_TYPE(sym.st_info),
              bind |-> GELF_ST_BIND(sym.st_info),
              section_header_index |-> sym.st_shndx]
       IN  Value({symbols_in_section_loop(self, shdr, func, r.user_data,
                    symbol_index + 1, symbol_count, r.ret) :
                  r \in {Invoke(func, details, user_data)}})

gum_elf_module_enumerate_symbols_in_section(self, section, func, user_data) ==
  LET s == gum_elf_module_find_section_header(self, section)
  IN  IF ~s.found THEN user_data
      ELSE symbols_in_section_loop(self, s.shdr, func, user_data, 0,
                                   s.shdr.sh_size \div s.shdr.sh_entsize, TRUE)

gum_elf_module_enumerate_symbols(self, func, user_data) ==
  gum_elf_module_enumerate_symbols_in_section(self, SHT_SYMTAB, func, user_data)

(***************************************************************************)
(* Derived views.                                                          *)
(***************************************************************************)
gum_elf_module_enumerate_dependencies(self, func, user_data) ==
  LET ctx0 == [func |-> func, user_data |-> user_data, module |-> self,
               strtab |-> NULL]
  IN  Value({IF ctx.strtab = NULL THEN ctx.user_data
             ELSE gum_elf_module_enumerate_dynamic_entries(
                    self, "gum_emit_each_needed", ctx).user_data :
             ctx \in {gum_elf_module_enumerate_dynamic_entries(
                        self, "gum_store_strtab", ctx0)}})

gum_elf_module_enumerate_imports(self, func, user_data, wild) ==
  LET ctx == [func |-> func, user_data |-> user_data]
  IN  Value({[user_data |-> r.user_data.user_data, fault |-> r.fault] :
             r \in {gum_elf_module_enumerate_dynamic_symbols(
                      self, "gum_emit_elf_import", ctx, wild)}})

gum_elf_module_enumerate_exports(self, func, user_data, wild) ==
  LET ctx == [func |-> func, user_data |-> user_data]
  IN  Value({[user_data |-> r.user_data.user_data, fault |-> r.fault] :
             r \in {gum_elf_module_enumerate_dynamic_symbols(
                      self, "gum_emit_elf_export", ctx, wild)}})

(***************************************************************************)
(* The images explored.  An ET_EXEC image is linked at 0x400000, any other *)
(* at 0; its tables lie at fixed offsets from there.                       *)
(***************************************************************************)
LinkBase(e_type) == IF e_type = ET_EXEC THEN Mk64(0, 0, 64, 0) ELSE Zero64

SymtabVaddr(e_type) == Add64(LinkBase(e_type), ToU64(4096))
StrtabVaddr(e_type) == Add64(LinkBase(e_type), ToU64(8192))
HashVaddr(e_type) == Add64(LinkBase(e_type), ToU64(2048))
DynamicVaddr(e_type) == Add64(LinkBase(e_type), ToU64(12288))

SeqsUpTo(S, n) == UNION {[1..k -> S] : k \in 0..n}

\* Program headers, by kind.
PhdrKinds == {"load0", "load0b", "load1", "stack", "dynamic"}

PhdrOf(kind, e_type, dynamic) ==
  CASE kind = "load0" -> Phdr(PT_LOAD, 0, LinkBase(e_type), 64)
    [] kind = "load0b" ->
         Phdr(PT_LOAD, 0, Add64(LinkBase(e_type), Mk64(0, 0, 32, 0)), 64)
    [] kind = "load1" ->
         Phdr(PT_LOAD, 4096, Add64(LinkBase(e_type), ToU64(4096)), 64)
    [] kind = "stack" -> Phdr(PT_GNU_STACK, 0, Zero64, 0)
    [] kind = "dynamic" ->
         Phdr(PT_DYNAMIC, 12288, DynamicVaddr(e_type),
              Len(dynamic) * SizeofDyn)

\* Dynamic entries, by kind.
DynOf(kind, e_type) ==
  CASE kind = "needed1" -> Dyn(DT_NEEDED, ToU64(1))
    [] kind = "needed11" -> Dyn(DT_NEEDED, ToU64(11))
    [] kind = "strtab" -> Dyn(DT_STRTAB, StrtabVaddr(e_type))
    [] kind = "strtab0" -> Dyn(DT_STRTAB, Zero64)
    [] kind = "symtab" -> Dyn(DT_SYMTAB, SymtabVaddr(e_type))
    [] kind = "syment" -> Dyn(DT_SYMENT, ToU64(SizeofSym))
    [] kind = "hash" -> Dyn(DT_HASH, HashVaddr(e_type))
    [] kind = "debug" -> Dyn(DT_DEBUG, Zero64)

DynamicOf(kinds, e_type) == [i \in 1..Len(kinds) |-> DynOf(kinds[i], e_type)]

\* Symbols, by <<section index, type, binding>>: one kind for each way a
\* symbol passes or misses the import and export tests.  A defined symbol
\* has an address of its own, each symbol a name offset of its own.
SymKinds ==
  {<<SHN_UNDEF, STT_FUNC, STB_GLOBAL>>, <<SHN_UNDEF, STT_OBJECT, STB_LOCAL>>,
   <<SHN_UNDEF, STT_NOTYPE, STB_GLOBAL>>, <<1, STT_FUNC, STB_GLOBAL>>,
   <<1, STT_FUNC, STB_LOCAL>>, <<1, STT_OBJECT, STB_WEAK>>}

SymOf(kind, i, e_type) ==
  Sym(8 * i + 1,
      IF kind[1] = SHN_UNDEF THEN Zero64
      ELSE Add64(LinkBase(e_type), ToU64(4128 + 32 * (i - 1))),
      GELF_ST_INFO(kind[3], kind[2]), kind[1])

\* A symbol table: the null symbol, then one symbol of each kind given.
SymbolsOf(kinds, e_type) ==
  <<NullSym>> \o [i \in 1..Len(kinds) |-> SymOf(kinds[i], i, e_type)]

StandardDynamic == <<"needed1", "needed11", "hash", "strtab", "symtab",
                     "syment", "debug">>

StandardSymbols == << <<SHN_UNDEF, STT_FUNC, STB_GLOBAL>>,
                      <<1, STT_FUNC, STB_GLOBAL>> >>

\* An ELF file that opens, maps and parses.
Image(e_type, phdr_kinds, dyn_kinds, dynsym, sections) ==
  LET dynamic == DynamicOf(dyn_kinds, e_type)
  IN  [can_open |-> TRUE, can_mmap |-> TRUE, is_elf |-> TRUE,
       e_type |-> e_type,
       phdrs |-> [i \in 1..Len(phdr_kinds) |->
                    PhdrOf(phdr_kinds[i], e_type, dynamic)],
       dynamic |-> dynamic,
       dynsym |-> dynsym,
       symtab_vaddr |-> SymtabVaddr(e_type),
       nchain |-> Len(dynsym),
       shdrs |-> IF sections
                   THEN <<Shdr(SHT_STRTAB, 64, 0, 0),
                          Shdr(SHT_SYMTAB, Len(dynsym) * SizeofSym,
                               SizeofSym, 1)>>
                 ELSE <<>>,
       symtab |-> dynsym]

\* Files that do not make it through construction.
BrokenFiles ==
  LET f == Image(ET_DYN, <<"load0", "dynamic">>, StandardDynamic,
                 SymbolsOf(StandardSymbols, ET_DYN), FALSE)
  IN  {[f EXCEPT !.can_open = FALSE],
       [f EXCEPT !.can_mmap = FALSE],
       [f EXCEPT !.is_elf = FALSE]}

\* Every object type, over every sequence of program headers.
FilesNew ==
  BrokenFiles \cup
  {Image(t, p, StandardDynamic, SymbolsOf(StandardSymbols, t), FALSE) :
     t \in {ET_REL, ET_EXEC, ET_DYN, ET_CORE},
     p \in SeqsUpTo(PhdrKinds, MaxPhdrs)}

\* Every sequence of dynamic entries a dependency scan looks at.
FilesDeps ==
  BrokenFiles \cup
  {Image(ET_EXEC, <<"load0", "dynamic">>, d,
         SymbolsOf(StandardSymbols, ET_EXEC), FALSE) :
     d \in SeqsUpTo({"needed1", "needed11", "strtab", "strtab0", "debug"},
                    MaxDyn)}

\* Every sequence of dynamic entries the symbol table scan looks at.
FilesSymtab ==
  BrokenFiles \cup
  {Image(ET_DYN, <<"load0", "dynamic">>, d,
         SymbolsOf(StandardSymbols, ET_DYN), FALSE) :
     d \in SeqsUpTo({"symtab", "syment", "hash", "strtab", "needed1"},
                    MaxSymtabDyn)}

\* Every dynamic symbol table, with section headers present.
FilesSyms ==
  BrokenFiles \cup
  {Image(ET_EXEC, <<"load0", "dynamic">>, StandardDynamic, y, TRUE) :
     y \in {<<>>} \cup {SymbolsOf(k, ET_EXEC) :
                          k \in SeqsUpTo(SymKinds, MaxSyms)}}

\* The runtime base addresses callers pass: 0x400000 and 0x7f0000000000.
BaseAddresses == {Mk64(0, 0, 64, 0), Mk64(0, 32512, 0, 0)}

\* What a read outside the symbol table may do: fault, or yield whatever
\* lies there.
Fault == [fault |-> TRUE, sym |-> NullSym]

Garbage ==
  {[fault |-> FALSE,
    sym |-> Sym(0, Zero64, GELF_ST_INFO(STB_GLOBAL, STT_FUNC), 1)],
   [fault |-> FALSE,
    sym |-> Sym(0, Zero64, GELF_ST_INFO(STB_GLOBAL, STT_FUNC), SHN_UNDEF)]}

\* The ways a call may end: as it does when a read outside the symbol table
\* faults and, if one does, as it does when the read yields something.
Outcomes(faulting, others) == IF faulting.fault THEN {faulting} \cup others ELSE {faulting}

(***************************************************************************)
(* The state machine.                                                      *)
(***************************************************************************)
NoCall == [op |-> "none", stop_at |-> 0]

InitWith(files) ==
  /\ sizeof_gpointer \in PointerSizes
  /\ file \in files
  /\ module = GumElfModuleInstance(Zero64)
  /\ result = "pending"
  /\ call = NoCall
  /\ log = <<>>
  /\ outcome = "none"

InitNew == InitWith(FilesNew)
InitDeps == InitWith(FilesDeps)
InitSymtab == InitWith(FilesSymtab)
InitSyms == InitWith(FilesSyms)
Init == InitNew \/ InitDeps \/ InitSymtab \/ InitSyms

\* gum_elf_module_new_from_memory (path, base_address): the instance is
\* returned when it is valid, and dropped (NULL returned) when it is not.
NewFromMemory ==
  /\ result = "pending"
  /\ \E base_address \in BaseAddresses :
       LET m == gum_elf_module_constructed(
                  GumElfModuleInstance(base_address), file)
       IN  /\ module' = m
           /\ result' = IF ~m.valid THEN "NULL" ELSE "module"
  /\ UNCHANGED <<sizeof_gpointer, file, call, log, outcome>>

\* The caller holds a module and is not inside a call.  The calls do not
\* change the module, so each is explored from the state after construction.
CanCall == result = "module" /\ call = NoCall

Returned(op, stop_at, user_data, fault) ==
  /\ call' = [op |-> op, stop_at |-> stop_at]
  /\ log' = user_data.log
  /\ outcome' = IF fault THEN "fault" ELSE "returned"
  /\ UNCHANGED <<sizeof_gpointer, file, module, result>>

EnumerateDynamicEntries ==
  /\ CanCall
  /\ \E stop_at \in 0..MaxStop :
       Returned("dynamic_entries", stop_at,
                gum_elf_module_enumerate_dynamic_entries(
                  module, "user", UserData(stop_at)), FALSE)

EnumerateDynamicSymbols ==
  /\ CanCall
  /\ \E stop_at \in 0..MaxStop :
       \E r \in Outcomes(
                 gum_elf_module_enumerate_dynamic_symbols(
                   module, "user", UserData(stop_at), Fault),
                 {gum_elf_module_enumerate_dynamic_symbols(
                    module, "user", UserData(stop_at), wild) :
                  wild \in Garbage}) :
         Returned("dynamic_symbols", stop_at, r.user_data, r.fault)

EnumerateSymbols ==
  /\ CanCall
  /\ \E stop_at \in 0..MaxStop :
       Returned("symbols", stop_at,
                gum_elf_module_enumerate_symbols(
                  module, "user", UserData(stop_at)), FALSE)

EnumerateDependencies ==
  /\ CanCall
  /\ \E stop_at \in 0..MaxStop :
       Returned("dependencies", stop_at,
                gum_elf_module_enumerate_dependencies(
                  module, "user", UserData(stop_at)), FALSE)

EnumerateImports ==
  /\ CanCall
  /\ \E stop_at \in 0..MaxStop :
       \E r \in Outcomes(
                 gum_elf_module_enumerate_imports(
                   module, "user", UserData(stop_at), Fault),
                 {gum_elf_module_enumerate_imports(
                    module, "user", UserData(stop_at), wild) :
                  wild \in Garbage}) :
         Returned("imports", stop_at, r.user_data, r.fault)

EnumerateExports ==
  /\ CanCall
  /\ \E stop_at \in 0..MaxStop :
       \E r \in Outcomes(
                 gum_elf_module_enumerate_exports(
                   module, "user", UserData(stop_at), Fault),
                 {gum_elf_module_enumerate_exports(
                    module, "user", UserData(stop_at), wild) :
                  wild \in Garbage}) :
         Returned("exports", stop_at, r.user_data, r.fault)

Next ==
  \/ NewFromMemory
  \/ EnumerateDynamicEntries
  \/ EnumerateDynamicSymbols
  \/ EnumerateSymbols
  \/ EnumerateDependencies
  \/ EnumerateImports
  \/ EnumerateExports

Spec == Init /\ [][Next]_vars
SpecNew == InitNew /\ [][Next]_vars
SpecDeps == InitDeps /\ [][Next]_vars
SpecSymtab == InitSymtab /\ [][Next]_vars
SpecSyms == InitSyms /\ [][Next]_vars

(***************************************************************************)
(* Vocabulary of the properties.                                           *)
(***************************************************************************)
\* The records the caller's callback was given during the last call.
Delivered == [i \in 1..Len(log) |-> log[i].details]

Prefix(s, n) == SubSeq(s, 1, IF n < Len(s) THEN n ELSE Len(s))

\* The first n records of s, all of them when n = 0 (the callback never stops).
UpToStop(s, n) == IF n = 0 THEN s ELSE Prefix(s, n)

HasTag(dynamic, tag) == \E i \in 1..Len(dynamic) : dynamic[i].d_tag = tag

TagCount(dynamic, tag) ==
  Cardinality({i \in 1..Len(dynamic) : dynamic[i].d_tag = tag})

HasDynamicSegment(phdrs) == \E i \in 1..Len(phdrs) : phdrs[i].p_type = PT_DYNAMIC

\* What the last call delivers to a callback that never stops, when no read
\* faults.
NeverStopped(op) ==
  CASE op = "dynamic_entries" ->
         [user_data |-> gum_elf_module_enumerate_dynamic_entries(
                          module, "user", UserData(0)), fault |-> FALSE]
    [] op = "dynamic_symbols" ->
         gum_elf_module_enumerate_dynamic_symbols(
           module, "user", UserData(0), Fault)
    [] op = "symbols" ->
         [user_data |-> gum_elf_module_enumerate_symbols(
                          module, "user", UserData(0)), fault |-> FALSE]
    [] op = "dependencies" ->
         [user_data |-> gum_elf_module_enumerate_dependencies(
                          module, "user", UserData(0)), fault |-> FALSE]
    [] op = "imports" ->
         gum_elf_module_enumerate_imports(module, "user", UserData(0), Fault)
    [] op = "exports" ->
         gum_elf_module_enumerate_exports(module, "user", UserData(0), Fault)

DetailsOf(l) == [i \in 1..Len(l) |-> l[i].details]

AllRecords(op) == DetailsOf(NeverStopped(op).user_data.log)

EnumerationOps == {"dynamic_entries", "dynamic_symbols", "symbols",
                   "dependencies", "imports", "exports"}

(***************************************************************************)
(* C1.  On an image whose program headers hold no PT_DYNAMIC segment, the  *)
(* enumerations of dependencies, imports, exports, dynamic entries and     *)
(* dynamic symbols return without a single call of the caller's callback   *)
(* and without a fault.                                                    *)
(***************************************************************************)
C1_NoDynamicSegment ==
  (/\ result = "module"
   /\ call.op \in {"dependencies", "imports", "exports", "dynamic_entries",
                   "dynamic_symbols"}
   /\ ~HasDynamicSegment(file.phdrs))
  => (log = <<>> /\ outcome = "returned")

\* An exports call has returned on an image with program headers, dynamic
\* entries and an exportable symbol in memory, but no PT_DYNAMIC header.
C1_Witness ==
  /\ result = "module"
  /\ call.op = "exports"
  /\ outcome = "returned"
  /\ Len(file.phdrs) = MaxPhdrs
  /\ ~HasDynamicSegment(file.phdrs)
  /\ Len(file.dynamic) > 0
  /\ Len(file.dynsym) > 2

(***************************************************************************)
(* C2.  Early termination.  In every enumeration, once the callback has    *)
(* answered stop no further call of it is made: every answer in the log    *)
(* but the last is "carry on"; a callback that stops on its n-th call gets *)
(* exactly the first n records of what a never-stopping one gets (exactly  *)
(* one record when it stops on the first), and a record is delivered       *)
(* before the stop is looked at.                                           *)
(***************************************************************************)
C2_EarlyTermination ==
  (result = "module" /\ call.op \in EnumerationOps /\ outcome = "returned")
  => /\ \A i \in 1..(Len(log) - 1) : log[i].ret
     /\ (Len(log) >= 1 /\ ~log[1].ret) => Len(log) = 1
     /\ \A all \in {NeverStopped(call.op)} :
          ~all.fault
            => Delivered = UpToStop(DetailsOf(all.user_data.log), call.stop_at)

\* An imports call whose callback stopped on the first of two imports.
C2_Witness ==
  /\ result = "module"
  /\ call.op = "imports"
  /\ call.stop_at = 1
  /\ Len(log) = 1
  /\ ~log[1].ret
  /\ Len(AllRecords("imports")) = 2

(***************************************************************************)
(* C3.  Dependencies.                                                      *)
(***************************************************************************)
FirstStrtab(dynamic) ==
  dynamic[CHOOSE i \in 1..Len(dynamic) :
            /\ dynamic[i].d_tag = DT_STRTAB
            /\ \A j \in 1..(i - 1) : dynamic[j].d_tag # DT_STRTAB]

IsNeeded(entry) == entry.d_tag = DT_NEEDED

\* One record per DT_NEEDED entry, in the order of the entries, named by the
\* string at offset d_val of the string table at `strtab`.
NeededFrom(dynamic, strtab) ==
  LET needed == SelectSeq(dynamic, IsNeeded)
  IN  [i \in 1..Len(needed) |-> [name |-> PointerAdd(strtab, needed[i].d_val)]]

ResolvedStrtab(dynamic) ==
  GSIZE_TO_POINTER(gum_elf_module_resolve_virtual_address(
                     module, FirstStrtab(dynamic).d_val))

\* C3 as claimed: when the callback never stops, the dependencies delivered
\* are one per DT_NEEDED entry, in entry order, named through the resolved
\* DT_STRTAB pointer wherever DT_STRTAB stands; none when there is no
\* DT_STRTAB entry.
C3_AsClaimed ==
  (result = "module" /\ call.op = "dependencies" /\ call.stop_at = 0)
  => Delivered = IF ~HasTag(file.dynamic, DT_STRTAB) THEN <<>>
                 ELSE NeededFrom(file.dynamic, ResolvedStrtab(file.dynamic))

\* C3 as amended: as claimed, except that no dependency is delivered
\* either when the first DT_STRTAB entry resolves to the null pointer.
C3_Dependencies ==
  (result = "module" /\ call.op = "dependencies" /\ call.stop_at = 0)
  => Delivered = IF \/ ~HasTag(file.dynamic, DT_STRTAB)
                    \/ ResolvedStrtab(file.dynamic) = NULL
                   THEN <<>>
                 ELSE NeededFrom(file.dynamic, ResolvedStrtab(file.dynamic))

\* Two dependencies delivered in entry order, DT_STRTAB standing after both
\* DT_NEEDED entries.
C3_Witness ==
  /\ result = "module"
  /\ call.op = "dependencies"
  /\ call.stop_at = 0
  /\ Len(file.dynamic) = 3
  /\ file.dynamic[1] = Dyn(DT_NEEDED, ToU64(11))
  /\ file.dynamic[2] = Dyn(DT_NEEDED, ToU64(1))
  /\ file.dynamic[3].d_tag = DT_STRTAB
  /\ Len(log) = 2
  /\ log[1].details.name = PointerAdd(log[2].details.name, ToU64(10))

(***************************************************************************)
(* Symbols, as the claims classify them.                                   *)
(***************************************************************************)
IsImport(d) ==
  /\ d.section_header_index = SHN_UNDEF
  /\ d.type \in {STT_FUNC, STT_OBJECT}

IsExport(d) ==
  /\ d.section_header_index # SHN_UNDEF
  /\ d.type \in {STT_FUNC, STT_OBJECT}
  /\ d.bind \in {STB_GLOBAL, STB_WEAK}

ExportKind(d) ==
  IF d.type = STT_FUNC THEN "GUM_EXPORT_FUNCTION" ELSE "GUM_EXPORT_VARIABLE"

ImportsOf(symbols) ==
  LET s == SelectSeq(symbols, IsImport)
  IN  [i \in 1..Len(s) |-> [type |-> ExportKind(s[i]), name |-> s[i].name,
                            module |-> "NULL", address |-> Zero64]]

ExportsOf(symbols) ==
  LET s == SelectSeq(symbols, IsExport)
  IN  [i \in 1..Len(s) |-> [type |-> ExportKind(s[i]), name |-> s[i].name,
                            address |-> s[i].address]]

\* Symbols of every section index, type and binding in use: undefined, an
\* ordinary section, SHN_ABS and SHN_COMMON; the types STT_NOTYPE to STT_TLS;
\* the bindings STB_LOCAL, STB_GLOBAL, STB_WEAK and STB_GNU_UNIQUE.
AnySymbolDetails ==
  {[name |-> NULL, address |-> ToU64(4128), type |-> t, bind |-> b,
    section_header_index |-> x] :
     t \in 0..6, b \in {0, 1, 2, 10}, x \in {SHN_UNDEF, 1, 65521, 65522}}

\* Whether `func` hands the symbol on to the caller's callback.
Emits(func, details) ==
  Invoke(func, details, [func |-> "user", user_data |-> UserData(0)])
    .user_data.user_data.log # <<>>

\* The dynamic symbol table of a well-formed image: the entries after the
\* null symbol, as GumElfSymbolDetails.
WellFormedDynamic(dynamic) ==
  \A tag \in {DT_SYMTAB, DT_SYMENT, DT_HASH, DT_STRTAB} :
     TagCount(dynamic, tag) = 1

DynamicSymbolTable ==
  [i \in 1..(Len(file.dynsym) - 1) |->
     [name |-> PointerAdd(ResolvedStrtab(file.dynamic),
                          ToU64(file.dynsym[i + 1].st_name)),
      address |-> gum_elf_module_resolve_virtual_address(
                    module, file.dynsym[i + 1].st_value),
      type |-> file.dynsym[i + 1].st_info % 16,
      bind |-> file.dynsym[i + 1].st_info \div 16,
      section_header_index |-> file.dynsym[i + 1].st_shndx]]

(***************************************************************************)
(* C4.  Import and export classification are mutually exclusive: no symbol *)
(* details, whatever their section index, type and binding, are handed on  *)
(* by both gum_emit_elf_import and gum_emit_elf_export, and no symbol      *)
(* delivered by one of the two enumerations of an image is delivered by    *)
(* the other.                                                              *)
(***************************************************************************)
Names(records) == {records[i].name : i \in 1..Len(records)}

C4_MutuallyExclusive ==
  /\ \A d \in AnySymbolDetails :
       ~(Emits("gum_emit_elf_import", d) /\ Emits("gum_emit_elf_export", d))
  /\ (result = "module" /\ call.op = "imports" /\ outcome = "returned")
       => Names(Delivered) \cap Names(AllRecords("exports")) = {}
  /\ (result = "module" /\ call.op = "exports" /\ outcome = "returned")
       => Names(Delivered) \cap Names(AllRecords("imports")) = {}

\* An imports call has delivered a symbol of an image that also has an
\* export.
C4_Witness ==
  /\ result = "module"
  /\ call.op = "imports"
  /\ Len(log) = 1
  /\ Len(AllRecords("exports")) = 1

(***************************************************************************)
(* C5.  Address translation is an affine shift modulo 2^64: the preferred  *)
(* address resolves to the base address, resolve(a + k) = resolve(a) + k,  *)
(* and the result depends on base_address and preferred_address only.      *)
(***************************************************************************)
AddressSamples ==
  {Zero64, Mk64(0, 0, 64, 4128), Mk64(0, 0, 65535, 65535),
   Mk64(0, 32512, 0, 0), Mk64(65535, 65535, 65535, 65535)}

OffsetSamples ==
  {ToU64(1), Mk64(0, 0, 1, 0), Mk64(32768, 0, 0, 0),
   Mk64(65535, 65535, 65535, 65535)}

C5_AffineShift ==
  result = "module" =>
    /\ gum_elf_module_resolve_virtual_address(module, module.preferred_address)
         = module.base_address
    /\ \A a \in AddressSamples, k \in OffsetSamples :
         gum_elf_module_resolve_virtual_address(module, Add64(a, k))
           = Add64(gum_elf_module_resolve_virtual_address(module, a), k)
    /\ \A a \in AddressSamples :
         gum_elf_module_resolve_virtual_address(module, a)
           = gum_elf_module_resolve_virtual_address(
               [base_address |-> module.base_address,
                preferred_address |-> module.preferred_address], a)

\* Base 0x7f0000000000, preferred address 0x400000: the symbol linked at
\* 0x401020 was delivered with the address 0x7f0000001020.
C5_Witness ==
  /\ result = "module"
  /\ module.base_address = Mk64(0, 32512, 0, 0)
  /\ module.preferred_address = Mk64(0, 0, 64, 0)
  /\ call.op = "dynamic_symbols"
  /\ Len(log) >= 1
  /\ file.dynsym[2].st_value = Mk64(0, 0, 64, 4128)
  /\ log[1].details.address = Mk64(0, 32512, 0, 4128)

(***************************************************************************)
(* C6.  Construction is all or nothing: it yields a module exactly when    *)
(* the file opens, maps, parses as ELF and is of type ET_EXEC or ET_DYN    *)
(* (so a parseable ET_REL or ET_CORE file yields none); a module that is   *)
(* returned is valid and carries its computed preferred address, one that  *)
(* is not returned is not valid.                                           *)
(***************************************************************************)
C6_AllOrNothing ==
  result # "pending" =>
    /\ (result = "module") <=>
         (/\ file.can_open
          /\ file.can_mmap
          /\ file.is_elf
          /\ file.e_type \in {ET_EXEC, ET_DYN})
    /\ result = "module" =>
         /\ module.valid
         /\ module.preferred_address =
              gum_elf_module_compute_preferred_address(module)
    /\ result = "NULL" => ~module.valid

\* Construction on a relocatable object that opens, maps and parses has
\* returned NULL.
C6_Witness ==
  /\ result = "NULL"
  /\ file.can_open
  /\ file.can_mmap
  /\ file.is_elf
  /\ file.e_type = ET_REL
  /\ Len(file.phdrs) > 0

(***************************************************************************)
(* C7.  Exports.  gum_emit_elf_export hands a symbol on exactly when its   *)
(* section index is not SHN_UNDEF, its type STT_FUNC or STT_OBJECT and its *)
(* binding STB_GLOBAL or STB_WEAK; the records delivered are those of the  *)
(* dynamic symbols enumerated, in their order, up to the stop, each with   *)
(* the symbol's resolved address; on a well-formed dynamic section the     *)
(* symbols enumerated are the entries of the table after the null symbol.  *)
(***************************************************************************)
C7_Exports ==
  /\ \A d \in AnySymbolDetails : Emits("gum_emit_elf_export", d) <=> IsExport(d)
  /\ (result = "module" /\ call.op = "exports" /\ outcome = "returned")
       => /\ \A all \in {NeverStopped("dynamic_symbols")} :
               ~all.fault
                 => Delivered = UpToStop(ExportsOf(DetailsOf(all.user_data.log)),
                                         call.stop_at)
          /\ WellFormedDynamic(file.dynamic) /\ HasDynamicSegment(file.phdrs)
               => Delivered = UpToStop(ExportsOf(DynamicSymbolTable),
                                       call.stop_at)

\* Of a local function and a weak object, both defined, only the object was
\* exported, with its resolved address.
C7_Witness ==
  /\ result = "module"
  /\ call.op = "exports"
  /\ call.stop_at = 0
  /\ Len(file.dynsym) = 3
  /\ file.dynsym[2].st_info = GELF_ST_INFO(STB_LOCAL, STT_FUNC)
  /\ file.dynsym[2].st_shndx # SHN_UNDEF
  /\ file.dynsym[3].st_info = GELF_ST_INFO(STB_WEAK, STT_OBJECT)
  /\ Len(log) = 1
  /\ log[1].details.type = "GUM_EXPORT_VARIABLE"
  /\ log[1].details.address =
       Add64(module.base_address,
             Sub64(file.dynsym[3].st_value, module.preferred_address))

(***************************************************************************)
(* C8.  Imports.  gum_emit_elf_import hands a symbol on exactly when its   *)
(* section index is SHN_UNDEF and its type STT_FUNC or STT_OBJECT,         *)
(* whatever its binding; every import delivered has address 0 and no       *)
(* module; the records delivered are those of the dynamic symbols          *)
(* enumerated, in their order, up to the stop; on a well-formed dynamic    *)
(* section the symbols enumerated are the entries of the table after the   *)
(* null symbol.                                                            *)
(***************************************************************************)
C8_Imports ==
  /\ \A d \in AnySymbolDetails : Emits("gum_emit_elf_import", d) <=> IsImport(d)
  /\ (result = "module" /\ call.op = "imports" /\ outcome = "returned")
       => /\ \A i \in 1..Len(log) :
               /\ log[i].details.address = Zero64
               /\ log[i].details.module = "NULL"
          /\ \A all \in {NeverStopped("dynamic_symbols")} :
               ~all.fault
                 => Delivered = UpToStop(ImportsOf(DetailsOf(all.user_data.log)),
                                         call.stop_at)
          /\ WellFormedDynamic(file.dynamic) /\ HasDynamicSegment(file.phdrs)
               => Delivered = UpToStop(ImportsOf(DynamicSymbolTable),
                                       call.stop_at)

\* Of an undefined local object and an undefined symbol without type, only
\* the object was imported.
C8_Witness ==
  /\ result = "module"
  /\ call.op = "imports"
  /\ call.stop_at = 0
  /\ Len(file.dynsym) = 3
  /\ file.dynsym[2].st_info = GELF_ST_INFO(STB_LOCAL, STT_OBJECT)
  /\ file.dynsym[2].st_shndx = SHN_UNDEF
  /\ file.dynsym[3].st_info = GELF_ST_INFO(STB_GLOBAL, STT_NOTYPE)
  /\ file.dynsym[3].st_shndx = SHN_UNDEF
  /\ Len(log) = 1
  /\ log[1].details.type = "GUM_EXPORT_VARIABLE"

(***************************************************************************)
(* C9.  As claimed: whenever one of DT_SYMTAB, DT_SYMENT, DT_HASH and      *)
(* DT_STRTAB is absent from the dynamic entries, the enumerations of       *)
(* dynamic symbols, imports and exports make no call of the callback.      *)
(***************************************************************************)
C9_AsClaimed ==
  (/\ result = "module"
   /\ call.op \in {"dynamic_symbols", "imports", "exports"}
   /\ \E tag \in {DT_SYMTAB, DT_SYMENT, DT_HASH, DT_STRTAB} :
        ~HasTag(file.dynamic, tag))
  => log = <<>>

(***************************************************************************)
(* C10.  As claimed: the preferred address is the virtual address of the   *)
(* first PT_LOAD program header whose file offset is zero, and zero when   *)
(* there is none.                                                          *)
(***************************************************************************)
IsLoadAtZero(phdr) == phdr.p_type = PT_LOAD /\ phdr.p_offset = 0

FirstLoadAtZero(phdrs) ==
  LET loads == SelectSeq(phdrs, IsLoadAtZero)
  IN  IF loads = <<>> THEN Zero64 ELSE loads[1].p_vaddr

C10_AsClaimed ==
  result = "module" => module.preferred_address = FirstLoadAtZero(file.phdrs)

(***************************************************************************)
(* C11.  As claimed: when DT_SYMTAB, DT_SYMENT, DT_HASH and DT_STRTAB are  *)
(* all among the dynamic entries and the callback never stops, the         *)
(* enumeration of dynamic symbols calls it exactly once for each entry     *)
(* index 1, ..., nchain - 1 of the symbol table, in increasing order and   *)
(* never for index 0 (so not at all when nchain is 0 or 1), each record    *)
(* carrying the address resolve(st_value) and the name strtab + st_name.   *)
(***************************************************************************)
SymbolAt(entry_index) ==
  [name |-> PointerAdd(ResolvedStrtab(file.dynamic),
                       ToU64(file.dynsym[entry_index + 1].st_name)),
   address |-> gum_elf_module_resolve_virtual_address(
                 module, file.dynsym[entry_index + 1].st_value),
   type |-> file.dynsym[entry_index + 1].st_info % 16,
   bind |-> file.dynsym[entry_index + 1].st_info \div 16,
   section_header_index |-> file.dynsym[entry_index + 1].st_shndx]

C11_AsClaimed ==
  (/\ result = "module"
   /\ call.op = "dynamic_symbols"
   /\ call.stop_at = 0
   /\ HasDynamicSegment(file.phdrs)
   /\ \A tag \in {DT_SYMTAB, DT_SYMENT, DT_HASH, DT_STRTAB} :
        HasTag(file.dynamic, tag))
  => /\ outcome = "returned"
     /\ Delivered = [i \in 1..(file.nchain - 1) |-> SymbolAt(i)]

=============================================================================
